---- MODULE Spec2Model ----
(***************************************************************************)
(* Model of modify-fits-header.py: main() walks the files given on the     *)
(* command line, opens each for update, runs eight header edit steps in a  *)
(* fixed order, then flushes and closes the file.                          *)
(*                                                                         *)
(* The steps look a keyword up only after testing that the header holds    *)
(* it, so none of them raises KeyError.  Time() and float() raise          *)
(* ValueError on text they cannot parse; main() catches KeyError and       *)
(* IOError only, so a ValueError ends the process where it is raised:      *)
(* nothing that follows in main() runs, fits.flush() included.             *)
(*                                                                         *)
(* Text that the program matches against a regular expression (RA, Dec,    *)
(* the IRIS date, the numeric options) is a sequence of one-character      *)
(* strings.  Instants are counted in half seconds since                    *)
(* 2000-01-01T00:00:00, so that half an exposure of a whole number of      *)
(* seconds is exact and every value fits a 32-bit integer.                 *)
(***************************************************************************)
EXTENDS Integers, Sequences, FiniteSets, TLC

\* Number of files on the command line of a batch run.
MaxFiles == 3
\* Number of times the same command line is run over the same files.
MaxRuns == 2

----------------------------------------------------------------------------
\* Character-level helpers: what Python's re and str methods do to the text.

DigitChars == <<"0", "1", "2", "3", "4", "5", "6", "7", "8", "9">>

IsDigit(c) == \E k \in 1..10 : DigitChars[k] = c

DigitVal(c) == (CHOOSE k \in 1..10 : DigitChars[k] = c) - 1

\* \s of the regular expressions
IsSpace(c) == c = " "

\* \d+ : one or more digits
IsDigits(s) == Len(s) >= 1 /\ \A k \in 1..Len(s) : IsDigit(s[k])

RECURSIVE ToNat(_)
ToNat(s) == IF s = <<>> THEN 0
            ELSE 10 * ToNat(SubSeq(s, 1, Len(s) - 1)) + DigitVal(s[Len(s)])

RECURSIVE LStrip(_)
LStrip(s) == IF s # <<>> /\ IsSpace(s[1]) THEN LStrip(Tail(s)) ELSE s

RECURSIVE RStrip(_)
RStrip(s) == IF s # <<>> /\ IsSpace(s[Len(s)])
             THEN RStrip(SubSeq(s, 1, Len(s) - 1)) ELSE s

\* leading ^\s* and trailing \s*$ of a pattern whose core holds no blank
Strip(s) == RStrip(LStrip(s))

\* str.split(c): the fields between the occurrences of c
RECURSIVE Split(_, _)
Split(s, c) ==
    IF \A k \in 1..Len(s) : s[k] # c THEN <<s>>
    ELSE LET p == CHOOSE k \in 1..Len(s) : s[k] = c /\ \A j \in 1..(k - 1) : s[j] # c
         IN  <<SubSeq(s, 1, p - 1)>> \o Split(SubSeq(s, p + 1, Len(s)), c)

\* str.zfill(w)
RECURSIVE ZFill(_, _)
ZFill(s, w) == IF Len(s) >= w THEN s ELSE ZFill(<<"0">> \o s, w)

----------------------------------------------------------------------------
\* Values of header keywords and of options.

Absent == [fmt |-> "absent"]

\* optparse's default=None
None == [fmt |-> "none"]

Str(s) == [fmt |-> "str", s |-> s]

Num(v) == [fmt |-> "num", v |-> v]

\* an ISO 8601 date-time string, by the instant it denotes
Isot(t) == [fmt |-> "isot", t |-> t]

\* a string that splits into three fields on "/"
Dmy(dd, mm, yyyy) == [fmt |-> "dmy", dd |-> dd, mm |-> mm, yyyy |-> yyyy]

\* any other string: no "/" in it, and not an ISO date-time
Text == [fmt |-> "text"]

\* UT-START as HH:MM:SS
Hms(hh, mi, ss) == [fmt |-> "hms", hh |-> hh, mi |-> mi, ss |-> ss]

Keywords == {"DATE-OBS", "UT-START", "EXPTIME", "MIDPOINT", "JD", "OBJECT",
             "FILTER", "AIRMASS", "CALSTAT", "RA", "DEC"}

EmptyHeader == [k \in Keywords |-> Absent]

\* 'KEY' in fits[0].header
Has(h, k) == h[k].fmt # "absent"

----------------------------------------------------------------------------
\* Library calls, by what they do to the values the program hands them.

\* float(s): optional blanks, optional sign, digits, optional fraction;
\* anything else raises ValueError.  The value is kept in thousandths.
FloatBody(s) == LET c == Strip(s)
                IN  IF c # <<>> /\ c[1] \in {"-", "+"} THEN Tail(c) ELSE c

FloatOk(s) == LET f == Split(FloatBody(s), ".")
              IN  /\ Len(f) \in 1..2
                  /\ IsDigits(f[1])
                  /\ Len(f) = 2 => IsDigits(f[2])

FloatMilli(s) ==
    LET c    == Strip(s)
        f    == Split(FloatBody(s), ".")
        frac == IF Len(f) = 2 THEN SubSeq(f[2] \o <<"0", "0", "0">>, 1, 3) ELSE <<"0", "0", "0">>
        mag  == 1000 * ToNat(f[1]) + ToNat(frac)
    IN  IF c[1] = "-" THEN 0 - mag ELSE mag

IsLeap(y) == (y % 4 = 0 /\ y % 100 # 0) \/ y % 400 = 0

DaysInMonth(y, m) == IF m = 2 THEN (IF IsLeap(y) THEN 29 ELSE 28)
                     ELSE IF m \in {4, 6, 9, 11} THEN 30 ELSE 31

\* days from 1970-01-01 to the civil date y-m-d (proleptic Gregorian)
DaysFromCivil(y, m, d) ==
    LET yy  == IF m <= 2 THEN y - 1 ELSE y
        era == yy \div 400
        yoe == yy - era * 400
        mp  == IF m > 2 THEN m - 3 ELSE m + 9
        doy == (153 * mp + 2) \div 5 + d - 1
        doe == yoe * 365 + yoe \div 4 - yoe \div 100 + doy
    IN  era * 146097 + doe - 719468

\* half seconds from 2000-01-01T00:00:00 to y-m-d T hh:mi:ss
Ticks(y, m, d, hh, mi, ss) ==
    (DaysFromCivil(y, m, d) - 10957) * 172800 + ((hh * 60 + mi) * 60 + ss) * 2

\* Time(full_dateobs, scale='utc', format='isot') succeeds
TimeOk(full) ==
    \/ full.fmt = "isot"
    \/ /\ full.fmt = "combined"
       /\ IsDigits(full.yyyy) /\ IsDigits(full.mm) /\ IsDigits(full.dd)
       /\ ToNat(full.mm) \in 1..12
       /\ ToNat(full.dd) \in 1..DaysInMonth(ToNat(full.yyyy), ToNat(full.mm))
       /\ full.ut.fmt = "hms"
       /\ full.ut.hh \in 0..23 /\ full.ut.mi \in 0..59 /\ full.ut.ss \in 0..59

\* the instant Time(...) denotes
TimeOf(full) ==
    IF full.fmt = "isot" THEN full.t
    ELSE Ticks(ToNat(full.yyyy), ToNat(full.mm), ToNat(full.dd),
               full.ut.hh, full.ut.mi, full.ut.ss)

\* Time.jd: the Julian day number and the half seconds into that day
\* (2000-01-01T00:00:00 is JD 2451544.5)
JulianDate(t) == [fmt |-> "jd", day |-> 2451544 + (t + 86400) \div 172800,
                  part |-> (t + 86400) % 172800]

----------------------------------------------------------------------------
\* The pure parts of the edit steps.

\* get_hd_m_s_str(input, prefix): prefix is the set of signs the pattern admits
get_hd_m_s_str(input, prefix) ==
    LET f       == Split(Strip(input), ":")
        signed  == f[1] # <<>> /\ f[1][1] \in prefix
        hd      == IF signed THEN Tail(f[1]) ELSE f[1]
        sec     == Split(f[3], ".")
        matches == /\ Len(f) = 3
                   /\ IsDigits(hd)
                   /\ IsDigits(f[2])
                   /\ Len(sec) \in 1..2
                   /\ \A k \in 1..Len(sec) : IsDigits(sec[k])
    IN  IF matches THEN Str(f[1] \o <<" ">> \o f[2] \o <<" ">> \o f[3]) ELSE None

\* the pattern of optionally_set_iris_dateobs and the string built from its groups
iris_dateobs_of(s) ==
    LET f       == Split(Strip(s), "-")
        matches == /\ Len(f) = 3
                   /\ IsDigits(f[1]) /\ Len(f[1]) = 4
                   /\ IsDigits(f[2]) /\ Len(f[2]) \in 1..2
                   /\ IsDigits(f[3]) /\ Len(f[3]) \in 1..2
    IN  IF matches THEN Dmy(ZFill(f[3], 2), ZFill(f[2], 2), ZFill(f[1], 4)) ELSE None

\* set_calstat admitting the letters in any order
CalstatValuesAnyOrder == {"B", "BD", "DB", "BF", "FB", "DF", "FD", "BDF"}

\* the CALSTAT values set_calstat admits
CalstatValues == {"B", "BD", "BF", "DF", "BDF"}

\* what a step hands back: the header it leaves in memory, the lines it
\* prints, and whether it left by an exception main() does not catch
Result(h, lines, raised) == [header |-> h, out |-> lines, raised |-> raised]

\* lines printed only under --verbose
Verbose(options, lines) == IF options.verbose THEN lines ELSE <<>>

\* the DATE-OBS optionally_set_iris_dateobs writes, or None when it writes none
iris_dateobs(options) ==
    IF options.iris_dateobs.fmt = "none" THEN None
    ELSE iris_dateobs_of(options.iris_dateobs.s)

optionally_set_iris_dateobs(h, options) ==
    IF options.iris_dateobs.fmt = "none" THEN Result(h, <<>>, FALSE)
    ELSE IF iris_dateobs(options).fmt = "dmy"
         THEN Result([h EXCEPT !["DATE-OBS"] = iris_dateobs(options)],
                     Verbose(options, <<"initial", "adjusted">>), FALSE)
         ELSE Result(h, <<"format not yyyy-mm-dd">>, FALSE)

\* extract_full_dateobs with the del of UT-START left out
extract_full_dateobs_keeps_utstart(h) ==
    IF Has(h, "UT-START") /\ Has(h, "DATE-OBS")
    THEN IF h["DATE-OBS"].fmt = "dmy"
         THEN [full   |-> [fmt |-> "combined", yyyy |-> h["DATE-OBS"].yyyy,
                           mm |-> h["DATE-OBS"].mm, dd |-> h["DATE-OBS"].dd,
                           ut |-> h["UT-START"]],
               header |-> h,
               out    |-> <<>>]
         ELSE [full |-> None, header |-> h, out |-> <<"DATE-OBS format not DD/MM/YYYY">>]
    ELSE IF Has(h, "DATE-OBS")
         THEN [full |-> h["DATE-OBS"], header |-> h, out |-> <<>>]
         ELSE [full |-> None, header |-> h, out |-> <<"does not contain DATE-OBS keyword">>]

\* extract_full_dateobs with the del of UT-START done on every path
extract_full_dateobs_always_deletes(h) ==
    LET hd == [h EXCEPT !["UT-START"] = Absent]
    IN
    IF Has(h, "UT-START") /\ Has(h, "DATE-OBS")
    THEN IF h["DATE-OBS"].fmt = "dmy"
         THEN [full   |-> [fmt |-> "combined", yyyy |-> h["DATE-OBS"].yyyy,
                           mm |-> h["DATE-OBS"].mm, dd |-> h["DATE-OBS"].dd,
                           ut |-> h["UT-START"]],
               header |-> hd,
               out    |-> <<>>]
         ELSE [full |-> None, header |-> hd, out |-> <<"DATE-OBS format not DD/MM/YYYY">>]
    ELSE IF Has(h, "DATE-OBS")
         THEN [full |-> h["DATE-OBS"], header |-> hd, out |-> <<>>]
         ELSE [full |-> None, header |-> hd, out |-> <<"does not contain DATE-OBS keyword">>]

extract_full_dateobs(h) ==
    IF Has(h, "UT-START") /\ Has(h, "DATE-OBS")
    THEN IF h["DATE-OBS"].fmt = "dmy"
         THEN [full   |-> [fmt |-> "combined", yyyy |-> h["DATE-OBS"].yyyy,
                           mm |-> h["DATE-OBS"].mm, dd |-> h["DATE-OBS"].dd,
                           ut |-> h["UT-START"]],
               header |-> [h EXCEPT !["UT-START"] = Absent],
               out    |-> <<>>]
         ELSE [full |-> None, header |-> h, out |-> <<"DATE-OBS format not DD/MM/YYYY">>]
    ELSE IF Has(h, "DATE-OBS")
         THEN [full |-> h["DATE-OBS"], header |-> h, out |-> <<>>]
         ELSE [full |-> None, header |-> h, out |-> <<"does not contain DATE-OBS keyword">>]

\* tz_offset*60*60 seconds, in half seconds
tz_delta_t(options) == (FloatMilli(options.tz_offset) * 60 * 60 * 2) \div 1000

\* exp_time, in thousandths of a second
exp_time(h, options) ==
    IF FloatMilli(options.exp_time) = 0 /\ Has(h, "EXPTIME")
    THEN 1000 * h["EXPTIME"].v
    ELSE FloatMilli(options.exp_time)

\* the midpoint taken a whole exposure after the start
midpoint_delta_t_whole(h, options) == (2 * exp_time(h, options)) \div 1000

\* exp_time/2 seconds, in half seconds
midpoint_delta_t(h, options) == exp_time(h, options) \div 1000

\* set_times past its first test: lines 104 to 138
adjust_times(h, options) ==
    LET x          == extract_full_dateobs(h)
        hx         == x.header
        initial_t  == TimeOf(x.full)
        adjusted_t == initial_t + tz_delta_t(options)
        midpoint_t == adjusted_t + midpoint_delta_t(hx, options)
        new_date_obs == IF options.use_midpoint_for_dateobs THEN midpoint_t ELSE adjusted_t
        start      == Verbose(options, <<"start">>)
    IN  IF x.full.fmt = "none" THEN Result(hx, x.out, FALSE)
        ELSE IF ~TimeOk(x.full) THEN Result(hx, x.out, TRUE)
        ELSE IF ~FloatOk(options.tz_offset) THEN Result(hx, start, TRUE)
        ELSE IF ~FloatOk(options.exp_time) THEN Result(hx, start, TRUE)
        ELSE Result([hx EXCEPT !["DATE-OBS"] = Isot(new_date_obs),
                               !["MIDPOINT"] = Isot(midpoint_t),
                               !["JD"] = JulianDate(midpoint_t)],
                    start
                    \o (IF options.use_midpoint_for_dateobs
                        THEN <<"using midpoint for DATE-OBS">> ELSE <<>>)
                    \o Verbose(options, <<"adjusted", "midpoint", "JD">>),
                    FALSE)

\* set_times without its test of options.adjust_time
set_times_unguarded(h, options) == adjust_times(h, options)

set_times(h, options) ==
    IF ~options.adjust_time THEN Result(h, <<>>, FALSE)
    ELSE adjust_times(h, options)

set_object(h, options) ==
    IF options.object.fmt = "none" THEN Result(h, <<>>, FALSE)
    ELSE Result([h EXCEPT !["OBJECT"] = options.object],
                Verbose(options, <<"Set object">>), FALSE)

set_filter(h, options) ==
    IF options.filter.fmt = "none" THEN Result(h, <<>>, FALSE)
    ELSE IF Has(h, "FILTER") THEN Result(h, <<>>, FALSE)
    ELSE Result([h EXCEPT !["FILTER"] = options.filter],
                Verbose(options, <<"Filter changed">>), FALSE)

set_airmass(h, options) ==
    IF options.airmass.fmt = "none" THEN Result(h, <<>>, FALSE)
    ELSE Result([h EXCEPT !["AIRMASS"] = options.airmass],
                Verbose(options, <<"Set airmass">>), FALSE)

set_calstat(h, options) ==
    IF options.calstat.fmt = "none" THEN Result(h, <<>>, FALSE)
    ELSE IF options.calstat.s \notin CalstatValues
         THEN Result(h, <<"CALSTAT must be one of B, BD, BF, DF, BDF">>, FALSE)
         ELSE Result([h EXCEPT !["CALSTAT"] = options.calstat],
                     Verbose(options, <<"Set calstat">>), FALSE)

set_ra(h, options) ==
    IF options.ra.fmt = "none" THEN Result(h, <<>>, FALSE)
    ELSE LET h_m_s == get_hd_m_s_str(options.ra.s, {})
         IN  IF h_m_s.fmt # "none"
             THEN Result([h EXCEPT !["RA"] = h_m_s], Verbose(options, <<"Set RA">>), FALSE)
             ELSE Result(h, <<"Invalid RA">>, FALSE)

set_dec(h, options) ==
    IF options.dec.fmt = "none" THEN Result(h, <<>>, FALSE)
    ELSE LET d_m_s == get_hd_m_s_str(options.dec.s, {"-", "+"})
         IN  IF d_m_s.fmt # "none"
             THEN Result([h EXCEPT !["DEC"] = d_m_s], Verbose(options, <<"Set DEC">>), FALSE)
             ELSE Result(h, <<"Invalid DEC">>, FALSE)

----------------------------------------------------------------------------
\* The command lines and files the runs are drawn from.

\* optparse's defaults
DefaultOptions ==
    [airmass |-> None, calstat |-> None, iris_dateobs |-> None, dec |-> None,
     exp_time |-> <<"0", ".", "0">>, filter |-> None,
     use_midpoint_for_dateobs |-> FALSE, adjust_time |-> FALSE, object |-> None,
     ra |-> None, tz_offset |-> <<"0", ".", "0">>, verbose |-> FALSE]

\* -i values: yyyy-m-d with blanks around it, a date that is no calendar
\* date, and a string of another shape
IrisValues == {None,
               Str(<<" ", "2", "0", "1", "4", "-", "2", "-", "1", " ">>),
               Str(<<"2", "0", "1", "4", "-", "1", "3", "-", "1">>),
               Str(<<"1", "/", "2", "/", "2", "0", "1", "4">>)}

\* -e values, in seconds
ExpTimeValues == {<<"0", ".", "0">>, <<"3">>, <<"x">>}

\* -t values, in hours
TzOffsetValues == {<<"0", ".", "0">>, <<"-", "1", ".", "5">>, <<"1", "0">>, <<"x">>}

TimeOptions ==
    {[DefaultOptions EXCEPT !.iris_dateobs = a, !.exp_time = b, !.tz_offset = c,
                            !.use_midpoint_for_dateobs = d, !.adjust_time = e,
                            !.verbose = f]
       : a \in IrisValues, b \in ExpTimeValues, c \in TzOffsetValues,
         d \in BOOLEAN, e \in BOOLEAN, f \in BOOLEAN}

FieldOptions ==
    {[DefaultOptions EXCEPT !.filter = a, !.calstat = b, !.object = c,
                            !.airmass = d, !.verbose = e]
       : a \in {None, Str("V")},
         b \in {None, Str("B"), Str("BD"), Str("BF"), Str("DF"), Str("BDF"),
                Str("DB"), Str("bdf"), Str("")},
         c \in {None, Str("M42")},
         d \in {None, Str("1.2")},
         e \in BOOLEAN}

\* -r and -d values
CoordValues == {None,
                Str(<<"1", "2", ":", "3", "4", ":", "5", "6", ".", "7">>),
                Str(<<"1", "2", " ", "3", "4", " ", "5", "6", ".", "7">>),
                Str(<<"-", "5", ":", "6", ":", "7">>),
                Str(<<"+", "5", ":", "6", ":", "7">>),
                Str(<<" ", "3", "4", ":", "5", ":", "6", " ">>),
                Str(<<"3", "4", ":", "5">>),
                Str(<<"3", "4", ":", "5", ":", "6", ".">>),
                Str(<<"3", "4", ":", "5", ":", "x">>)}

CoordOptions ==
    {[DefaultOptions EXCEPT !.ra = a, !.dec = b, !.calstat = c]
       : a \in CoordValues, b \in CoordValues, c \in {None, Str("DB")}}

BatchOptions ==
    {[DefaultOptions EXCEPT !.adjust_time = a, !.tz_offset = b, !.object = Str("M42"),
                            !.iris_dateobs = c]
       : a \in BOOLEAN, b \in {<<"1", "0">>, <<"x">>},
         c \in {None, Str(<<"2", "0", "1", "4", "-", "0", "2", "-", "0", "1">>)}}

\* DATE-OBS of the files: none, an ISO date-time, DD/MM/YYYY, a DD/MM/YYYY
\* that is no calendar date, and a string of another shape
DateObsValues ==
    {Absent,
     Isot(Ticks(2014, 2, 1, 23, 59, 59)),
     Dmy(<<"0", "1">>, <<"0", "2">>, <<"2", "0", "1", "4">>),
     Dmy(<<"3", "1">>, <<"0", "2">>, <<"2", "0", "1", "4">>),
     Text}

\* UT-START of the files: none, a time of day, HH:MM:SS that is no time of
\* day, and a string of another shape
UtStartValues == {Absent, Hms(23, 59, 59), Hms(24, 0, 0), Text}

ExptimeHeaderValues == {Absent, Num(5)}

\* files as they come from the camera: no MIDPOINT and no JD yet
TimeHeaders ==
    {[EmptyHeader EXCEPT !["DATE-OBS"] = a, !["UT-START"] = b, !["EXPTIME"] = c]
       : a \in DateObsValues, b \in UtStartValues, c \in ExptimeHeaderValues}

FieldHeaders ==
    {[EmptyHeader EXCEPT !["FILTER"] = a, !["CALSTAT"] = b,
                         !["RA"] = c, !["DEC"] = c]
       : a \in {Absent, Str("R"), Str("V")},
         b \in {Absent, Str("B")},
         c \in {Absent, Str(<<"1", " ", "2", " ", "3">>)}}

File(h) == [readable |-> TRUE, header |-> h]

\* a file fitsio.open() raises IOError for
Unreadable == [readable |-> FALSE, header |-> EmptyHeader]

BatchFiles ==
    {Unreadable,
     File([EmptyHeader EXCEPT
             !["DATE-OBS"] = Dmy(<<"0", "1">>, <<"0", "2">>, <<"2", "0", "1", "4">>),
             !["UT-START"] = Hms(23, 59, 59)]),
     File([EmptyHeader EXCEPT
             !["DATE-OBS"] = Dmy(<<"0", "1">>, <<"0", "2">>, <<"2", "0", "1", "4">>)]),
     File(EmptyHeader)}

\* the argument lists of at most n files
Batches(n) == UNION {[1..k -> BatchFiles] : k \in 0..n}

----------------------------------------------------------------------------
\* The program.

VARIABLES
    options,   \* the parsed command line
    disk,      \* args: the files named on the command line, as they are on disk
    run,       \* which run of the command line this is
    start,     \* the files as they were when this run began
    pc,        \* where main() is
    i,         \* the index in args of the file the loop is at
    fits,      \* the header of the open file, in memory
    opened,    \* the files that are open
    out        \* the lines printed, each with the file it is about

vars == <<options, disk, run, start, pc, i, fits, opened, out>>

Steps == <<"optionally_set_iris_dateobs", "set_times", "set_object", "set_filter",
           "set_airmass", "set_calstat", "set_ra", "set_dec", "flush">>

\* the step after step p of the edit sequence
After(p) == Steps[(CHOOSE k \in 1..(Len(Steps) - 1) : Steps[k] = p) + 1]

Said(lines) == [k \in 1..Len(lines) |-> [file |-> i, line |-> lines[k]]]

Init ==
    /\ \/ options \in TimeOptions /\ disk \in {<<File(h)>> : h \in TimeHeaders}
       \/ options \in FieldOptions /\ disk \in {<<File(h)>> : h \in FieldHeaders}
       \/ options \in CoordOptions /\ disk \in {<<File(h)>> : h \in FieldHeaders}
       \/ options \in BatchOptions /\ disk \in Batches(MaxFiles)
    /\ run = 1
    /\ start = disk
    /\ pc = "main"
    /\ i = 1
    /\ fits = EmptyHeader
    /\ opened = {}
    /\ out = <<>>

\* main(), no file given: parser.print_help()
print_help ==
    /\ pc = "main" /\ Len(disk) = 0
    /\ pc' = "done"
    /\ out' = out \o <<[file |-> 0, line |-> "usage"]>>
    /\ UNCHANGED <<options, disk, run, start, i, fits, opened>>

\* the for loop moves to the next file, or ends
NextFile ==
    /\ i' = i + 1
    /\ pc' = IF i < Len(disk) THEN "main" ELSE "done"

\* fitsio.open(arg, mode="update"), and the except IOError clause
open ==
    /\ pc = "main" /\ i <= Len(disk)
    /\ IF disk[i].readable
       THEN /\ fits' = disk[i].header
            /\ opened' = opened \cup {i}
            /\ pc' = "optionally_set_iris_dateobs"
            /\ UNCHANGED <<i, out>>
       ELSE /\ out' = out \o Said(<<"IOError">>)
            /\ NextFile
            /\ UNCHANGED <<fits, opened>>
    /\ UNCHANGED <<options, disk, run, start>>

\* one edit step: r is what the step hands back.  An exception that is not a
\* KeyError leaves main() at once: nothing after it runs.
Edit(p, r) ==
    /\ pc = p
    /\ fits' = r.header
    /\ out' = out \o Said(r.out)
    /\ pc' = IF r.raised THEN "crashed" ELSE After(p)
    /\ UNCHANGED <<options, run, start, i, opened>>

do_optionally_set_iris_dateobs ==
    LET r == optionally_set_iris_dateobs(fits, options)
    IN  /\ Edit("optionally_set_iris_dateobs", r)
        \* the step's own fits.flush()
        /\ disk' = IF iris_dateobs(options).fmt = "dmy"
                   THEN [disk EXCEPT ![i].header = r.header] ELSE disk

do_set_times == Edit("set_times", set_times(fits, options)) /\ UNCHANGED disk

do_set_object == Edit("set_object", set_object(fits, options)) /\ UNCHANGED disk

do_set_filter == Edit("set_filter", set_filter(fits, options)) /\ UNCHANGED disk

do_set_airmass == Edit("set_airmass", set_airmass(fits, options)) /\ UNCHANGED disk

do_set_calstat == Edit("set_calstat", set_calstat(fits, options)) /\ UNCHANGED disk

do_set_ra == Edit("set_ra", set_ra(fits, options)) /\ UNCHANGED disk

do_set_dec == Edit("set_dec", set_dec(fits, options)) /\ UNCHANGED disk

\* fits.flush()
flush ==
    /\ pc = "flush"
    /\ disk' = [disk EXCEPT ![i].header = fits]
    /\ pc' = "close"
    /\ UNCHANGED <<options, run, start, i, fits, opened, out>>

\* fits.close(), and on to the next file
close ==
    /\ pc = "close"
    /\ opened' = opened \ {i}
    /\ fits' = EmptyHeader
    /\ NextFile
    /\ UNCHANGED <<options, disk, run, start, out>>

\* the process has ended: normally, or by an uncaught exception
Ended == pc \in {"done", "crashed"}

\* the same command line is run again over the same files
again ==
    /\ Ended /\ run < MaxRuns
    /\ run' = run + 1
    /\ start' = disk
    /\ pc' = "main"
    /\ i' = 1
    /\ fits' = EmptyHeader
    /\ opened' = {}
    /\ out' = <<>>
    /\ UNCHANGED <<options, disk>>

Next ==
    \/ print_help
    \/ open
    \/ do_optionally_set_iris_dateobs
    \/ do_set_times
    \/ do_set_object
    \/ do_set_filter
    \/ do_set_airmass
    \/ do_set_calstat
    \/ do_set_ra
    \/ do_set_dec
    \/ flush
    \/ close
    \/ again

Spec == Init /\ [][Next]_vars

----------------------------------------------------------------------------
\* Vocabulary of the properties.

\* the file the loop is at, as it is on disk
OnDisk == disk[i].header

\* the header of file k when its time step runs in this run: as the run found
\* it, with the DATE-OBS the legacy-date step writes first
AtTimeStep(k) ==
    IF iris_dateobs(options).fmt = "dmy"
    THEN [start[k].header EXCEPT !["DATE-OBS"] = iris_dateobs(options)]
    ELSE start[k].header

\* DD/MM/YYYY and HH:MM:SS that name a calendar date and a time of day
IsDate(d) == /\ d.fmt = "dmy"
             /\ IsDigits(d.dd) /\ IsDigits(d.mm) /\ IsDigits(d.yyyy)
             /\ ToNat(d.mm) \in 1..12
             /\ ToNat(d.dd) \in 1..DaysInMonth(ToNat(d.yyyy), ToNat(d.mm))

IsTimeOfDay(u) == u.fmt = "hms" /\ u.hh \in 0..23 /\ u.mi \in 0..59 /\ u.ss \in 0..59

\* header h holds a usable source timestamp
Usable(h) == \/ h["DATE-OBS"].fmt = "isot"
             \/ IsDate(h["DATE-OBS"]) /\ IsTimeOfDay(h["UT-START"])

\* the instant YYYY-MM-DDT<UT-START> of a header with DD/MM/YYYY and UT-START
Combined(h) == Ticks(ToNat(h["DATE-OBS"].yyyy), ToNat(h["DATE-OBS"].mm),
                     ToNat(h["DATE-OBS"].dd),
                     h["UT-START"].hh, h["UT-START"].mi, h["UT-START"].ss)

\* where main() is once set_times has returned
AfterTimes == {"set_object", "set_filter", "set_airmass", "set_calstat", "set_ra",
               "set_dec", "flush", "close"}

\* where main() is when an edit step is about to run
EditSteps == {"optionally_set_iris_dateobs", "set_times", "set_object", "set_filter",
              "set_airmass", "set_calstat", "set_ra", "set_dec"}

\* the time step has a source timestamp in header h: DD/MM/YYYY with UT-START,
\* or an ISO date-time with no UT-START beside it
HasSource(h) == \/ IsDate(h["DATE-OBS"]) /\ IsTimeOfDay(h["UT-START"])
                \/ h["DATE-OBS"].fmt = "isot" /\ ~Has(h, "UT-START")

\* that source timestamp T
Source(h) == IF h["DATE-OBS"].fmt = "isot" THEN h["DATE-OBS"].t ELSE Combined(h)

\* O hours, in half seconds
Offset == (FloatMilli(options.tz_offset) * 7200) \div 1000

\* E/2 seconds, in half seconds: E is the option if it is not zero, else the
\* header's EXPTIME if there is one, else 0
HalfExposure(h) ==
    IF FloatMilli(options.exp_time) # 0 THEN FloatMilli(options.exp_time) \div 1000
    ELSE IF Has(h, "EXPTIME") THEN h["EXPTIME"].v
    ELSE 0

\* main() has called open() on file k
Attempted(k) == k < i \/ (k = i /\ pc # "main")

\* the lines printed about file k
Lines(k) == {out[n].line : n \in {m \in 1..Len(out) : out[m].file = k}}

----------------------------------------------------------------------------
\* C1: when the filter option is given, FILTER equals the option value after
\* set_filter has run, whether FILTER was absent or held another value before.
C1_FilterWritten ==
    (pc = "set_airmass" /\ options.filter.fmt = "str")
        => fits["FILTER"] = options.filter

\* C2: when the process ends, main() has attempted every file of the command
\* line: no failure at one file keeps the files after it from being processed.
C2_EveryFileAttempted ==
    Ended => \A k \in 1..Len(disk) : Attempted(k)

\* C3 as stated: a second run of the same command line leaves every keyword
\* other than MIDPOINT and JD as the first run left it.
C3_SecondRunSame ==
    (Ended /\ run >= 2) =>
        \A k \in 1..Len(disk) : \A w \in Keywords \ {"MIDPOINT", "JD"} :
            disk[k].header[w] = start[k].header[w]

\* C3 as amended: a second run of the same command line leaves every keyword
\* other than MIDPOINT, JD and DATE-OBS as the first run left it, and DATE-OBS
\* too when adjust-time is not set.
C3_SecondRunSameButDateObs ==
    (Ended /\ run >= 2) =>
        \A k \in 1..Len(disk) :
            /\ \A w \in Keywords \ {"MIDPOINT", "JD", "DATE-OBS"} :
                   disk[k].header[w] = start[k].header[w]
            /\ ~options.adjust_time =>
                   disk[k].header["DATE-OBS"] = start[k].header["DATE-OBS"]

\* a second run has ended that wrote OBJECT again and moved DATE-OBS again
C3_Witness ==
    /\ pc = "done" /\ run = 2 /\ options.adjust_time
    /\ \E k \in 1..Len(disk) :
          /\ disk[k].header["OBJECT"] = options.object
          /\ start[k].header["DATE-OBS"].fmt = "isot"
          /\ disk[k].header["DATE-OBS"] # start[k].header["DATE-OBS"]

\* C4: when the process ends, every file that could be opened and held a
\* usable source timestamp when its time step ran has, with adjust-time set,
\* an ISO date-time in DATE-OBS.
C4_DateObsIsIso ==
    Ended => \A k \in 1..Len(disk) :
        (options.adjust_time /\ disk[k].readable /\ Usable(AtTimeStep(k)))
            => disk[k].header["DATE-OBS"].fmt = "isot"

\* H:M:S[.fraction] with the fields separated by sep, blanks around it allowed,
\* a sign before H when signs holds one
Sexagesimal(s, sep, signs) ==
    LET f  == Split(Strip(s), sep)
        hd == IF f[1] # <<>> /\ f[1][1] \in signs THEN Tail(f[1]) ELSE f[1]
        ss == Split(f[3], ".")
    IN  /\ Len(f) = 3
        /\ IsDigits(hd) /\ IsDigits(f[2])
        /\ Len(ss) \in 1..2 /\ \A k \in 1..Len(ss) : IsDigits(ss[k])

\* the three fields of such a value, separated by single blanks
Spaced(s, sep) == LET f == Split(Strip(s), sep)
                  IN  Str(f[1] \o <<" ">> \o f[2] \o <<" ">> \o f[3])

\* what the claim says a coordinate step leaves in its keyword
Coordinate(opt, old, signs) ==
    IF opt.fmt = "none" THEN old
    ELSE IF Sexagesimal(opt.s, ":", signs) THEN Spaced(opt.s, ":")
    ELSE IF Sexagesimal(opt.s, " ", signs) THEN Spaced(opt.s, " ")
    ELSE old

\* C5: RA and Dec take H:M:S[.fraction] and H M S[.fraction], only Dec with a
\* sign, and store the three fields separated by single blanks; any other
\* value leaves the keyword as it was.
C5_CoordinateForms ==
    pc = "flush" =>
        /\ fits["RA"] = Coordinate(options.ra, OnDisk["RA"], {})
        /\ fits["DEC"] = Coordinate(options.dec, OnDisk["DEC"], {"-", "+"})

C8_Midpoint ==
    [][(/\ pc = "set_times" /\ options.adjust_time /\ HasSource(fits)
        /\ FloatOk(options.tz_offset) /\ FloatOk(options.exp_time))
       => LET mid == Source(fits) + Offset + HalfExposure(fits)
          IN  /\ fits'["MIDPOINT"] = Isot(mid)
              /\ fits'["DATE-OBS"] = Isot(IF options.use_midpoint_for_dateobs
                                         THEN mid ELSE Source(fits) + Offset)
              /\ fits'["MIDPOINT"].t - fits'["DATE-OBS"].t =
                     IF options.use_midpoint_for_dateobs THEN 0 ELSE HalfExposure(fits)
      ]_vars

\* the step has run with an offset of -1.5 hours and the header's EXPTIME of 5 s
C8_Witness ==
    /\ pc = "set_object" /\ options.adjust_time /\ ~options.use_midpoint_for_dateobs
    /\ options.tz_offset = <<"-", "1", ".", "5">> /\ options.exp_time = <<"0", ".", "0">>
    /\ HasSource(OnDisk) /\ Has(OnDisk, "UT-START") /\ Has(OnDisk, "EXPTIME")
    /\ fits["DATE-OBS"] = Isot(Combined(OnDisk) - 10800)
    /\ fits["MIDPOINT"] = Isot(Combined(OnDisk) - 10800 + 5)

\* C9: no two files are open at once, no file is open when the next one is
\* about to be opened, and when the process ends every file it opened has
\* been flushed and closed.
C9_FlushedAndClosed ==
    /\ Cardinality(opened) <= 1
    /\ pc = "main" => opened = {}
    /\ Ended => opened = {}
    /\ pc = "crashed" => OnDisk = fits

\* C10: with adjust-time set and UT-START beside a DD/MM/YYYY DATE-OBS when the
\* time step runs, the step deletes UT-START and starts from
\* YYYY-MM-DDT<UT-START>; in every other case no edit step touches UT-START and
\* the run leaves it on disk as it was.
C10_UtStart ==
    /\ [][(pc \in EditSteps) =>
            IF /\ pc = "set_times" /\ options.adjust_time
               /\ Has(fits, "UT-START") /\ fits["DATE-OBS"].fmt = "dmy"
            THEN /\ ~Has(fits', "UT-START")
                 /\ pc' = "set_object" =>
                        fits'["MIDPOINT"] =
                            Isot(Combined(fits) + Offset + HalfExposure(fits))
            ELSE fits'["UT-START"] = fits["UT-START"]
         ]_vars
    /\ [](Ended => \A k \in 1..Len(disk) :
            IF /\ options.adjust_time /\ disk[k].readable
               /\ Has(AtTimeStep(k), "UT-START") /\ AtTimeStep(k)["DATE-OBS"].fmt = "dmy"
            THEN pc = "done" => ~Has(disk[k].header, "UT-START")
            ELSE disk[k].header["UT-START"] = start[k].header["UT-START"])

\* the time step has deleted UT-START after the legacy-date step wrote DATE-OBS
C10_Witness ==
    /\ pc = "set_object" /\ options.adjust_time
    /\ iris_dateobs(options).fmt = "dmy" /\ OnDisk["DATE-OBS"] = iris_dateobs(options)
    /\ Has(OnDisk, "UT-START") /\ ~Has(fits, "UT-START")
    /\ fits["DATE-OBS"].fmt = "isot"

====
